---- MODULE Spec2Model ----
(***************************************************************************)
(* Model of the Pinterest search-and-scrape pipeline:                      *)
(*   - extract_all_image_urls_on_page   (canonicalizer)                    *)
(*   - extract_image_urls_method2       (discovery loop)                   *)
(*   - scroll_and_extract_urls          (queue hand-off)                   *)
(*   - download_images / batch_download_images (download scheduler)        *)
(*                                                                         *)
(* A URL is modelled as the sequence of its "/"-separated segments, so     *)
(* that the substring tests ('/236x/' in url) and str.replace behave as    *)
(* in Python: a marker matches only a segment with a slash on both sides,  *)
(* and replace() scans left to right without overlapping matches.          *)
(***************************************************************************)
EXTENDS Integers, Sequences, FiniteSets, TLC

\* ------------------------------------------------------------------ bounds
MaxSegs == 4
MaxScrolls == 2
MaxImages == 3
MaxHeight == 2
MaxUrls == 11
MaxWorkers == 2
MaxLateFaultLen == 3
MaxFailures == 3
SessionScrolls == 1
MaxTerms == 2
MaxCount == 2

\* ------------------------------------------------------- program constants
max_bottom_detection_attempts == 3
batch_size == 10

\* ------------------------------------------------------------ URL strings
Host == "i.pinimg.com"
Originals == "originals"
Thumb == "60x60"
DataScheme == "data:"
\* a pattern list that knows only the three markers of scroll_and_extract_urls
patternsShort == <<"236x", "474x", "736x">>

patterns == <<"236x", "474x", "736x", "1200x", "550x", "170x">>

\* the size-variant markers a reference may carry
Markers == {"236x", "474x", "736x", "1200x", "550x", "170x"}

Segments == {Host, Originals, Thumb, DataScheme, "a",
             "236x", "474x", "736x", "1200x", "550x", "170x"}

Rejected == <<"REJECTED">>

Range(s) == {s[i] : i \in 1..Len(s)}

NoDup(s) == \A i, j \in 1..Len(s) : i # j => s[i] # s[j]

\* '/seg/' in url : the segment occurs with a slash before and after it
Contains(url, seg) == \E i \in 2..(Len(url) - 1) : url[i] = seg

\* 'i.pinimg.com' in url
HasHost(url) == \E i \in 1..Len(url) : url[i] = Host

\* a prefix test that recognises no reference as inline data
NeverData(url) == FALSE

\* url.startswith('data:')
StartsWithData(url) == Len(url) >= 1 /\ url[1] = DataScheme

\* url.replace('/seg/', '/new/') : left to right, non-overlapping; a match at
\* segment i consumes the slash that a match at segment i+1 would need.
RECURSIVE ReplaceFrom(_, _, _, _)
ReplaceFrom(url, seg, new, i) ==
    IF i > Len(url) - 1 THEN url
    ELSE IF url[i] = seg
         THEN ReplaceFrom([url EXCEPT ![i] = new], seg, new, i + 2)
         ELSE ReplaceFrom(url, seg, new, i + 1)

Replace(url, seg, new) == ReplaceFrom(url, seg, new, 2)

\* for pattern in patterns: if pattern in url: processed_url = url.replace(..); break
ProcessUrl(url) ==
    LET hits == {k \in 1..Len(patterns) : Contains(url, patterns[k])}
    IN  IF hits = {} THEN url
        ELSE LET k == CHOOSE m \in hits : \A n \in hits : m <= n
             IN  Replace(url, patterns[k], Originals)

\* body of the loop "for url in all_urls" of extract_all_image_urls_on_page
Canonicalize(url) ==
    IF url = Rejected \/ url = <<>> THEN Rejected
    ELSE IF StartsWithData(url) THEN Rejected
    ELSE IF Contains(url, Thumb) THEN Rejected
    ELSE LET processed_url == ProcessUrl(url)
         IN  IF HasHost(processed_url) THEN processed_url ELSE Rejected

\* list(image_urls) of extract_all_image_urls_on_page, as the set it enumerates
ExtractAll(all_urls) == {Canonicalize(u) : u \in all_urls} \ {Rejected}

\* a second normalisation that rewrites markers whether or not the reference
\* already names the original variant
ToOriginalsUnguarded(url) ==
    Replace(Replace(Replace(url, "236x", Originals), "474x", Originals),
            "736x", Originals)

\* second normalisation of scroll_and_extract_urls (lines 235-239)
ToOriginals(url) ==
    IF Contains(url, Originals) THEN url
    ELSE Replace(Replace(Replace(url, "236x", Originals), "474x", Originals),
                 "736x", Originals)

\* "for url in urls" of scroll_and_extract_urls (lines 229-248): the queue built
\* from urls[k..], given the queue built so far (seen_urls is its set of entries)
RECURSIVE BuildQueue(_, _, _)
BuildQueue(list, k, queue) ==
    IF k > Len(list) THEN queue
    ELSE IF Contains(list[k], Thumb) THEN BuildQueue(list, k + 1, queue)
    ELSE LET url == ToOriginals(list[k])
         IN  IF url \notin Range(queue) /\ HasHost(url)
             THEN BuildQueue(list, k + 1, Append(queue, url))
             ELSE BuildQueue(list, k + 1, queue)

\* --------------------------------------------------------------- variables
VARIABLES
    c_pc,        \* canonicalizer harness: "in" | "once" | "twice" | "off"
    c_raw,       \* the raw reference under test
    c_once,      \* Canonicalize(c_raw)
    c_twice,     \* Canonicalize(c_once)
    c_queue,     \* the queue scroll_and_extract_urls builds from [c_once]
    c_alt,       \* c_raw with its size marker exchanged for another one
    c_alt_once,  \* Canonicalize(c_alt)
    pc,                      \* position of the session in main / scroll_and_extract_urls / ...
    num_scrolls,             \* extract_image_urls_method2 parameter (step budget)
    max_images,              \* requested item count
    i,                       \* loop variable of "for i in range(num_scrolls)"
    last_height,
    new_height,
    bottom_detection_count,
    attempt,                 \* loop variable of "for _ in range(max_bottom_detection_attempts)"
    all_image_urls,          \* the Python set of discovered canonical URLs
    urls,                    \* the list extract_image_urls_method2 returns
    url_queue,               \* queue.Queue of scroll_and_extract_urls, as a sequence
    insert_order,            \* history: canonical URLs in order of first insertion
    exit_reason,             \* history: how the discovery loop ended
    last_extract,            \* history: outcome of the latest in-loop extraction
    loop_count,              \* history: size of all_image_urls when the loop was left
    probe_heights,           \* history: extents read by the current confirmation re-probes
    overlap,                 \* history: the hook returned a reference already collected
    advances,                \* history: scrollBy requests issued by the current call
    dl_urls,                 \* "urls" of download_images / batch_download_images
    batch_num,               \* loop variable of "for batch_num in range(total_batches)"
    task,                    \* per selected URL: "none" | "inflight" | "ok" | "http" | "exc"
    download_counter,
    failed_downloads,
    downloaded,              \* return value of download_images, -1 while running
    workers,                 \* max_workers of the thread pool (0: asyncio scheduler)
    filepath,                \* per selected URL: the destination path given to its task
    files,                   \* the paths at which a file exists
    shared_state,            \* shared_state of process_search_term_parallel
    download_result,         \* return value of download_images_from_queue
    entry,                   \* the session entry point: "main" | "parallel" | "scraper"
    browser,                 \* the webdriver: "none" | "open" | "quit"
    report,                  \* what the entry point gave its caller for this session
    search_terms,            \* main: the requested count of each term, in file order
    results                  \* main: the results list

cvars == <<c_pc, c_raw, c_once, c_twice, c_queue, c_alt, c_alt_once>>
dvars == <<num_scrolls, max_images, i, last_height, new_height,
           bottom_detection_count, attempt, all_image_urls, urls,
           insert_order, exit_reason, last_extract, loop_count,
           probe_heights, overlap, advances>>
fvars == <<filepath, files, shared_state, download_result>>
evars == <<entry, browser, report>>
mvars == <<search_terms, results>>
svars == <<dl_urls, batch_num, task, download_counter, failed_downloads, downloaded,
           workers, filepath, files, shared_state, download_result>>
vars == <<c_pc, c_raw, c_once, c_twice, c_queue, c_alt, c_alt_once, pc, num_scrolls, max_images, i,
          last_height, new_height, bottom_detection_count, attempt,
          all_image_urls, urls, url_queue, insert_order, exit_reason,
          last_extract, loop_count, probe_heights, overlap, advances,
          dl_urls, batch_num, task, download_counter, failed_downloads, downloaded,
          workers, filepath, files, shared_state, download_result,
          entry, browser, report, search_terms, results>>

\* every string of at most MaxSegs segments
RECURSIVE SeqsUpTo(_, _)
SeqsUpTo(S, n) ==
    IF n = 0 THEN {<<>>}
    ELSE LET shorter == SeqsUpTo(S, n - 1)
         IN  shorter \cup {Append(s, x) : s \in {t \in shorter : Len(t) = n - 1}, x \in S}

RawStrings == SeqsUpTo(Segments, MaxSegs)

\* the enumerations of a set as a list: list(a_set) has an unspecified order
Perms(S) == {p \in [1..Cardinality(S) -> S] : Range(p) = S}

\* raw references the extraction hook may surface on the page under test
RawPool == { <<Host, "236x", "a">>,
             <<Host, "474x", "a">>,
             <<Host, Originals, "b">>,
             <<Host, Thumb, "c">>,
             <<DataScheme, Host, "c">>,
             <<Host, "736x", "1200x", "c">> }

Heights == 0..MaxHeight

\* ------------------------------------------- idle values of each component
CanonOff ==
    /\ c_pc = "off"
    /\ c_raw = <<>>
    /\ c_once = Rejected
    /\ c_twice = Rejected
    /\ c_queue = <<>>
    /\ c_alt = <<>>
    /\ c_alt_once = Rejected

DiscoveryIdle ==
    /\ i = 0
    /\ last_height = 0
    /\ new_height = 0
    /\ bottom_detection_count = 0
    /\ attempt = 0
    /\ all_image_urls = {}
    /\ urls = <<>>
    /\ insert_order = <<>>
    /\ exit_reason = "none"
    /\ last_extract = "none"
    /\ loop_count = 0
    /\ probe_heights = <<>>
    /\ overlap = FALSE
    /\ advances = 0

\* shared_state as process_search_term_parallel creates it (run.py lines 169-175)
NewSharedState ==
    [urls_found |-> 0, downloads_completed |-> 0, downloads_failed |-> 0,
     scroll_complete |-> FALSE, success |-> TRUE]

\* no report was given yet
NoReport == [success |-> FALSE, found |-> -1, downloaded |-> -1, error |-> FALSE]

\* the results list of main is empty before the first term (run.py line 107);
\* a session that is looked at alone is a run over one term
OneTerm ==
    /\ search_terms = (IF entry = "main" THEN <<max_images>> ELSE <<>>)
    /\ results = <<>>

\* the tuples main appends to results (run.py lines 131 and 134): the term is
\* named by its position in the file
Result(success, k, count, requested) ==
    [success |-> success, term |-> k, downloaded |-> count, requested |-> requested]

SchedulerIdle ==
    /\ dl_urls = <<>>
    /\ batch_num = 0
    /\ task = <<>>
    /\ download_counter = 0
    /\ failed_downloads = <<>>
    /\ downloaded = -1
    /\ workers = 0
    /\ filepath = <<>>
    /\ files = {}
    /\ shared_state = NewSharedState
    /\ download_result = "none"

\* ------------------------------------------------ canonicalizer harness
CanonInit ==
    /\ c_pc = "in"
    /\ entry = "none"
    /\ browser = "none"
    /\ report = NoReport
    /\ c_raw \in RawStrings
    /\ c_once = Rejected
    /\ c_twice = Rejected
    /\ c_queue = <<>>
    /\ c_alt = <<>>
    /\ c_alt_once = Rejected
    /\ pc = "off"
    /\ num_scrolls = 1
    /\ max_images = 1
    /\ url_queue = <<>>
    /\ DiscoveryIdle
    /\ SchedulerIdle
    /\ OneTerm

CanonOnce ==
    /\ c_pc = "in"
    /\ c_once' = Canonicalize(c_raw)
    /\ \E list \in Perms(ExtractAll({c_raw})) : c_queue' = BuildQueue(list, 1, <<>>)
    /\ c_pc' = "once"
    /\ UNCHANGED <<c_raw, c_twice, c_alt, c_alt_once, pc, url_queue, dvars, svars, evars, mvars>>

CanonTwice ==
    /\ c_pc = "once"
    /\ c_twice' = Canonicalize(c_once)
    /\ c_pc' = "twice"
    /\ UNCHANGED <<c_raw, c_once, c_queue, c_alt, c_alt_once, pc, url_queue, dvars, svars, evars, mvars>>

\* the same page element served under another size variant: the reference
\* differs from c_raw only in which of the size markers stands at position p
CanonAlt ==
    /\ c_pc = "twice"
    /\ \E p \in 2..(Len(c_raw) - 1) :
         /\ c_raw[p] \in Markers
         /\ \E m \in Markers \ {c_raw[p]} :
              /\ c_alt' = [c_raw EXCEPT ![p] = m]
              /\ c_alt_once' = Canonicalize(c_alt')
    /\ c_pc' = "alt"
    /\ UNCHANGED <<c_raw, c_once, c_twice, c_queue, pc, url_queue, dvars, svars, evars, mvars>>

CanonNext == CanonOnce \/ CanonTwice \/ CanonAlt

SpecCanon == CanonInit /\ [][CanonNext]_vars

\* ------------------------------------- extract_image_urls_method2 (discovery)
Init ==
    /\ CanonOff
    /\ entry = "main"
    /\ browser = "open"
    /\ report = NoReport
    /\ pc = "start"
    /\ num_scrolls \in 1..MaxScrolls
    /\ max_images \in 1..MaxImages
    /\ OneTerm
    /\ url_queue = <<>>
    /\ DiscoveryIdle
    /\ SchedulerIdle

\* the function returns: its frame (loop variables, extents) is gone
DropLocals ==
    /\ i' = 0
    /\ last_height' = 0
    /\ new_height' = 0
    /\ bottom_detection_count' = 0
    /\ attempt' = 0
    /\ probe_heights' = <<>>
    /\ last_extract' = "none"
    /\ advances' = 0

\* "except Exception: ... return []" (lines 247-250)
RaiseInMethod2 ==
    /\ urls' = <<>>
    /\ DropLocals
    /\ exit_reason' = "error"
    /\ loop_count' = Cardinality(all_image_urls)
    /\ pc' = "ret"

NextIterationOffByOne ==
    /\ i' = i + 1
    /\ IF i + 1 < num_scrolls + 1
       THEN pc' = "scroll" /\ UNCHANGED <<exit_reason, loop_count>>
       ELSE /\ pc' = "final"
            /\ exit_reason' = "budget"
            /\ loop_count' = Cardinality(all_image_urls)

\* end of one iteration of the for loop: next i, or the range is exhausted
NextIteration ==
    /\ i' = i + 1
    /\ IF i + 1 < num_scrolls
       THEN pc' = "scroll" /\ UNCHANGED <<exit_reason, loop_count>>
       ELSE /\ pc' = "final"
            /\ exit_reason' = "budget"
            /\ loop_count' = Cardinality(all_image_urls)

\* browser.get, wait for images, initial scrollHeight, set() (lines 156-183)
Start ==
    /\ pc = "start"
    /\ \/ /\ RaiseInMethod2
          /\ UNCHANGED all_image_urls
       \/ /\ \E h \in Heights : last_height' = h
          /\ all_image_urls' = {}
          /\ i' = 0
          /\ IF 0 < num_scrolls
             THEN pc' = "scroll" /\ UNCHANGED <<exit_reason, loop_count>>
             ELSE pc' = "final" /\ exit_reason' = "budget" /\ loop_count' = 0
          /\ advances' = 0
          /\ UNCHANGED <<urls, new_height, bottom_detection_count, attempt,
                         last_extract, probe_heights>>
    /\ UNCHANGED <<cvars, evars, mvars, svars, num_scrolls, max_images, url_queue, insert_order,
                   overlap>>

\* window.scrollBy + sleep(0.5) (lines 186-189)
Scroll ==
    /\ pc = "scroll"
    /\ \/ RaiseInMethod2
       \/ /\ pc' = "extract"
          /\ advances' = advances + 1
          /\ UNCHANGED <<urls, exit_reason, loop_count, i, last_height, new_height,
                         bottom_detection_count, attempt, last_extract, probe_heights>>
    /\ UNCHANGED <<cvars, evars, mvars, svars, num_scrolls, max_images, all_image_urls, url_queue,
                   insert_order, overlap>>

\* what extract_all_image_urls_on_page returns: the canonical references of the
\* page, or nothing when a script call raised (lines 259-376)
HookResultPartial(ok, page) ==
    IF ok THEN ExtractAll(page)
    ELSE ExtractAll({u \in page : Contains(u, Originals)})

HookResult(ok, page) == IF ok THEN ExtractAll(page) ELSE {}

\* every outcome of one call of the hook: <<it succeeded, what it returned>>
HookOutcomes == {<<ok, HookResult(ok, page)>> : ok \in BOOLEAN, page \in SUBSET RawPool}

\* extraction and insertion of one step (lines 192-201)
Extract ==
    /\ pc = "extract"
    /\ \E call \in HookOutcomes :
         LET image_urls == call[2]
             fresh == image_urls \ all_image_urls
         IN  /\ all_image_urls' = all_image_urls \cup image_urls
             /\ \E p \in Perms(fresh) : insert_order' = insert_order \o p
             /\ last_extract' = IF call[1] THEN "ok" ELSE "fail"
             /\ overlap' = (overlap \/ image_urls \cap all_image_urls # {})
    /\ pc' = "target"
    /\ UNCHANGED <<cvars, evars, mvars, svars, num_scrolls, max_images, i, last_height, new_height,
                   bottom_detection_count, attempt, urls, url_queue, exit_reason,
                   loop_count, probe_heights, advances>>

TargetReachedStrict(found, wanted) == Cardinality(found) > wanted

\* "if len(all_image_urls) >= max_images" (line 204)
TargetReached(found, wanted) == Cardinality(found) >= wanted

\* target check of one step (lines 203-206)
TargetCheck ==
    /\ pc = "target"
    /\ IF TargetReached(all_image_urls, max_images)
       THEN /\ pc' = "final"
            /\ exit_reason' = "target"
            /\ loop_count' = Cardinality(all_image_urls)
       ELSE pc' = "height" /\ UNCHANGED <<exit_reason, loop_count>>
    /\ UNCHANGED <<cvars, evars, mvars, svars, num_scrolls, max_images, i, last_height, new_height,
                   bottom_detection_count, attempt, all_image_urls, urls, url_queue,
                   insert_order, last_extract, probe_heights, overlap, advances>>

\* "if new_height == last_height" (line 210)
Stalled(height, previous) == height = previous

\* extent reading of one step (lines 208-214, and line 237 when not stalled)
ReadHeight ==
    /\ pc = "height"
    /\ \/ RaiseInMethod2
       \/ \E h \in Heights :
            /\ new_height' = h
            /\ IF Stalled(h, last_height)
               THEN /\ bottom_detection_count' = 0
                    /\ attempt' = 0
                    /\ probe_heights' = <<>>
                    /\ pc' = "probe"
                    /\ UNCHANGED <<i, last_height, exit_reason, loop_count>>
               ELSE /\ last_height' = h
                    /\ NextIteration
                    /\ UNCHANGED <<bottom_detection_count, attempt, probe_heights>>
            /\ UNCHANGED <<urls, last_extract, advances>>
    /\ UNCHANGED <<cvars, evars, mvars, svars, num_scrolls, max_images, all_image_urls, url_queue,
                   insert_order, overlap>>

\* "if newer_height > new_height" (line 223)
Grew(newer, height) == newer > height

\* a confirmation loop that makes one re-probe more
MoreProbesOneExtra(made) == made < max_bottom_detection_attempts + 1

\* "for _ in range(max_bottom_detection_attempts)" (line 216): after made
\* re-probes that did not break out, another one follows
MoreProbes(made) == made < max_bottom_detection_attempts

\* one confirmation re-probe: scroll, sleep(4), read the extent (lines 216-230)
Probe ==
    /\ pc = "probe"
    /\ \/ RaiseInMethod2
       \/ \E newer_height \in Heights :
            /\ probe_heights' = Append(probe_heights, newer_height)
            /\ advances' = advances + 1
            /\ IF Grew(newer_height, new_height)
               THEN /\ new_height' = newer_height
                    /\ pc' = "probe_end"
                    /\ UNCHANGED <<bottom_detection_count, attempt>>
               ELSE /\ bottom_detection_count' = bottom_detection_count + 1
                    /\ attempt' = attempt + 1
                    /\ pc' = IF MoreProbes(attempt + 1) THEN "probe" ELSE "probe_end"
                    /\ UNCHANGED new_height
            /\ UNCHANGED <<urls, exit_reason, loop_count, i, last_height, last_extract>>
    /\ UNCHANGED <<cvars, evars, mvars, svars, num_scrolls, max_images, all_image_urls, url_queue,
                   insert_order, overlap>>

\* a confirmation that asks for one stalled re-probe more than are made
BottomConfirmedStrict(count) == count > max_bottom_detection_attempts

\* "if bottom_detection_count >= max_bottom_detection_attempts" (line 233)
BottomConfirmed(count) == count >= max_bottom_detection_attempts

\* after the re-probes: stop as converged, or go on from new_height (lines 232-237)
ProbeEnd ==
    /\ pc = "probe_end"
    /\ IF BottomConfirmed(bottom_detection_count)
       THEN /\ pc' = "final"
            /\ exit_reason' = "converged"
            /\ loop_count' = Cardinality(all_image_urls)
            /\ UNCHANGED <<i, last_height>>
       ELSE /\ last_height' = new_height
            /\ NextIteration
    /\ UNCHANGED <<cvars, evars, mvars, svars, num_scrolls, max_images, new_height, bottom_detection_count,
                   attempt, all_image_urls, urls, url_queue, insert_order,
                   last_extract, probe_heights, overlap, advances>>

\* "for url in final_urls: all_image_urls.add(url)" then list(all_image_urls)
\* (lines 240-245): the lists the function may return
FinalCollectAppend(found, final_urls) ==
    {p \o f : p \in Perms(found), f \in Perms(final_urls)}

FinalCollectOnlyFinal(found, final_urls) == Perms(final_urls)

FinalCollect(found, final_urls) == Perms(found \cup final_urls)

\* final extraction after the loop and return (lines 239-245)
Final ==
    /\ pc = "final"
    /\ \E call \in HookOutcomes :
         LET final_urls == call[2]
             fresh == final_urls \ all_image_urls
         IN  /\ all_image_urls' = all_image_urls \cup final_urls
             /\ \E p \in Perms(fresh) : insert_order' = insert_order \o p
             /\ urls' \in FinalCollect(all_image_urls, final_urls)
             /\ overlap' = (overlap \/ final_urls \cap all_image_urls # {})
    /\ DropLocals
    /\ pc' = "ret"
    /\ UNCHANGED <<cvars, evars, mvars, svars, num_scrolls, max_images, url_queue, exit_reason,
                   loop_count>>

\* ------------------------------------------------- scroll_and_extract_urls
\* a hand-over that does not wait for the loop: what was discovered so far is
\* queued for download while the loop is between two steps
ReturnQueueEarly ==
    /\ pc \in {"ret", "height"}
    /\ entry # "scraper"
    /\ browser' = "quit"
    /\ \E list \in Perms(all_image_urls) : url_queue' = BuildQueue(list, 1, <<>>)
    /\ pc' = IF entry = "parallel" THEN "handoff" ELSE "download"
    /\ UNCHANGED <<cvars, dvars, svars, entry, report, mvars>>

\* scroll_and_extract_urls after extract_image_urls_method2 returned (lines 227-256)
\* and its finally clause: browser.quit(), whose exception replaces the return
ReturnQueue ==
    /\ pc = "ret"
    /\ entry # "scraper"
    /\ browser' = "quit"
    /\ \/ /\ url_queue' = BuildQueue(urls, 1, <<>>)
          /\ pc' = IF entry = "parallel" THEN "handoff" ELSE "download"
       \/ /\ url_queue' = <<>>                   \* browser.quit() raised
          /\ pc' = "failed"
    /\ UNCHANGED <<cvars, dvars, svars, entry, report, mvars>>

\* ------------------------------------------------------ destination paths
Jpg == <<"j", "p", "g">>

\* the decimal digits of n, most significant first
RECURSIVE Digits(_)
Digits(n) == IF n < 10 THEN <<n>> ELSE Append(Digits(n \div 10), n % 10)

\* f"{idx:04d}": zero-padded to four digits, longer numbers in full
Format04(idx) ==
    LET d == Digits(idx)
    IN  IF Len(d) >= 4 THEN d ELSE [k \in 1..(4 - Len(d)) |-> 0] \o d

\* os.path.join(folder, f"image_{idx:04d}.{ext}")
FilePath(folder, idx, ext) == [dir |-> folder, name |-> Format04(idx), ext |-> ext]

NoPath == [dir |-> "", name |-> <<>>, ext |-> <<>>]

IdxInBatch(start_idx, pos) == pos

\* "idx = start_idx + i" of the task-creation loops
Idx(start_idx, pos) == start_idx + pos

\* ------------------------------------------ download_images (run.py, main path)
Min(a, b) == IF a < b THEN a ELSE b

\* "while not url_queue.empty() and len(urls) < max_images: urls.append(url_queue.get())"
DrainOneMore(queue, wanted) == SubSeq(queue, 1, Min(Len(queue), wanted + 1))

Drain(queue, wanted) == SubSeq(queue, 1, Min(Len(queue), wanted))

\* download_images up to the call of asyncio.run (lines 436-456)
DownloadImages ==
    /\ pc = "download"
    /\ \/ /\ pc' = "failed"                      \* os.makedirs raised
          /\ UNCHANGED <<url_queue, svars>>
       \/ LET taken == Drain(url_queue, max_images)
          IN  /\ dl_urls' = taken
              /\ url_queue' = SubSeq(url_queue, Len(taken) + 1, Len(url_queue))
              /\ IF taken = <<>>
                 THEN downloaded' = 0 /\ pc' = "done"
                 ELSE pc' = "session" /\ UNCHANGED downloaded
              /\ UNCHANGED <<batch_num, task, download_counter, failed_downloads,
                             workers, fvars>>
    /\ UNCHANGED <<cvars, evars, mvars, dvars>>

TotalBatchesFloor(n) == n \div batch_size

TotalBatchesPlusOne(n) == (n + batch_size - 1) \div batch_size + 1

\* "total_batches = (len(urls) + batch_size - 1) // batch_size"
TotalBatches(n) == (n + batch_size - 1) \div batch_size

\* batch_download_images before its loop (lines 477-499); an exception here
\* leaves asyncio.run and download_images returns 0 (lines 461-463)
OpenSession ==
    /\ pc = "session"
    /\ \/ /\ downloaded' = 0
          /\ pc' = "done"
          /\ UNCHANGED <<dl_urls, batch_num, task, download_counter, failed_downloads,
                         filepath>>
       \/ /\ dl_urls' = SubSeq(dl_urls, 1, Min(Len(dl_urls), max_images))
          /\ batch_num' = 0
          /\ task' = [k \in 1..Min(Len(dl_urls), max_images) |-> "none"]
          /\ filepath' = [k \in 1..Min(Len(dl_urls), max_images) |-> NoPath]
          /\ download_counter' = 0
          /\ failed_downloads' = <<>>
          /\ pc' = "batch"
          /\ UNCHANGED downloaded
    /\ UNCHANGED <<cvars, evars, mvars, dvars, url_queue, workers, files, shared_state,
                   download_result>>

\* a slice that starts one reference early
BatchRangeOverlap(b, n) == (b * batch_size)..Min(b * batch_size + batch_size, n)

BatchRangeToEnd(b, n) == (b * batch_size + 1)..n

\* positions (1-based) of the URLs of batch b: urls[start_idx:end_idx]
BatchRange(b, n) == (b * batch_size + 1)..Min(b * batch_size + batch_size, n)

\* "for i, url in enumerate(batch_urls)": the tasks of batch b are created, each
\* with its destination path, and handed to asyncio.gather
CreateTasks(b, folder) ==
    LET start_idx == b * batch_size
        range == BatchRange(b, Len(dl_urls))
    IN  /\ task' = [k \in 1..Len(dl_urls) |-> IF k \in range THEN "inflight" ELSE task[k]]
        /\ filepath' = [k \in 1..Len(dl_urls) |->
                          IF k \in range
                          THEN FilePath(folder, Idx(start_idx, k - 1 - start_idx), Jpg)
                          ELSE filepath[k]]

\* head of the batch loop: create and gather the tasks of the next batch
\* (lines 501-517), or leave the loop and return (lines 530-532, 459-460)
BatchStart ==
    /\ pc = "batch"
    /\ IF batch_num < TotalBatches(Len(dl_urls))
       THEN /\ CreateTasks(batch_num, "output_dir")
            /\ pc' = "gather"
            /\ UNCHANGED downloaded
       ELSE /\ downloaded' = download_counter
            /\ pc' = "done"
            /\ UNCHANGED <<task, filepath>>
    /\ UNCHANGED <<cvars, evars, mvars, dvars, url_queue, dl_urls, batch_num, download_counter,
                   failed_downloads, workers, files, shared_state, download_result>>

\* the outcomes of download_single_image_async (lines 369-404): True ("ok": 200,
\* the body read and the file written and closed), False ("http": another
\* status) or the exception it returns ("exc"); an exception raised by the write
\* or the close comes after open() created the file (late). At most MaxFailures
\* tasks of a run fail, and late failures are followed in runs of at most
\* MaxLateFaultLen references.
TaskOutcomes(n, failed) ==
    {<<"ok", FALSE>>}
      \cup (IF failed < MaxFailures THEN {<<"http", FALSE>>, <<"exc", FALSE>>} ELSE {})
      \cup (IF failed < MaxFailures /\ n <= MaxLateFaultLen
            THEN {<<"exc", TRUE>>} ELSE {})

\* the number of tasks that have failed so far
Failed(states) ==
    Cardinality({k \in 1..Len(states) : states[k] \in {"http", "exc", "fail"}})

\* the files on disk once a task that was given "path" reached its outcome
FilesAfter(outcome, path) ==
    IF outcome[1] = "ok" \/ outcome[2] THEN files \cup {path} ELSE files

\* one task of batch_download_images reaches its outcome (lock and shared_state
\* are None: nothing is counted in the task)
TaskFinish(k) ==
    /\ pc = "gather"
    /\ task[k] = "inflight"
    /\ \E outcome \in TaskOutcomes(Len(dl_urls), Failed(task)) :
         /\ task' = [task EXCEPT ![k] = outcome[1]]
         /\ files' = FilesAfter(outcome, filepath[k])
    /\ UNCHANGED <<cvars, evars, mvars, dvars, url_queue, pc, dl_urls, batch_num, download_counter,
                   failed_downloads, downloaded, workers, filepath, shared_state,
                   download_result>>

\* the batch's URLs whose task returned an exception, in task order
RECURSIVE FailedIn(_, _, _, _)
FailedIn(list, states, k, last) ==
    IF k > last THEN <<>>
    ELSE IF states[k] = "exc" THEN <<list[k]>> \o FailedIn(list, states, k + 1, last)
    ELSE FailedIn(list, states, k + 1, last)

GatherUntilException(states, range) ==
    \/ \A k \in range : states[k] # "inflight"
    \/ \E k \in range : states[k] \in {"exc", "fail"}

\* a gather that never returns
GatherNever(states, range) == FALSE

GatherFirstCompleted(states, range) ==
    range = {} \/ \E k \in range : states[k] # "inflight"

\* "await asyncio.gather(*tasks, return_exceptions=True)" returns: every task of
\* the batch has reached its outcome
GatherReturned(states, range) == \A k \in range : states[k] # "inflight"

\* "for i, result in enumerate(results)" (lines 519-528) once gather returned
BatchEnd ==
    /\ pc = "gather"
    /\ GatherReturned(task, BatchRange(batch_num, Len(dl_urls)))
    /\ LET range == BatchRange(batch_num, Len(dl_urls))
       IN  /\ download_counter' =
                 download_counter + Cardinality({k \in range : task[k] = "ok"})
           /\ failed_downloads' = failed_downloads \o
                 FailedIn(dl_urls, task, batch_num * batch_size + 1,
                          Min(batch_num * batch_size + batch_size, Len(dl_urls)))
    /\ batch_num' = batch_num + 1
    /\ pc' = "batch"
    /\ UNCHANGED <<cvars, evars, mvars, dvars, url_queue, dl_urls, task, downloaded, workers, fvars>>

DownloadNext ==
    \/ DownloadImages
    \/ OpenSession
    \/ BatchStart
    \/ \E k \in 1..Len(task) : TaskFinish(k)
    \/ BatchEnd

Next ==
    \/ Start
    \/ Scroll
    \/ Extract
    \/ TargetCheck
    \/ ReadHeight
    \/ Probe
    \/ ProbeEnd
    \/ Final
    \/ ReturnQueue
    \/ DownloadNext

Spec == Init /\ [][Next]_vars

\* extract_image_urls_method2 on its own, from its call to its return
DiscoveryNext ==
    \/ Start
    \/ Scroll
    \/ Extract
    \/ TargetCheck
    \/ ReadHeight
    \/ Probe
    \/ ProbeEnd
    \/ Final

\* the steps of the function that call no extraction hook
LoopStep == Start \/ Scroll \/ TargetCheck \/ ReadHeight \/ Probe \/ ProbeEnd

\* a call of extract_all_image_urls_on_page returns to the loop (line 192) or
\* to the final collection (line 240): the hook catches what its scripts raise
HookReturns ==
    \/ pc = "extract" /\ pc' = "target"
    \/ pc = "final" /\ pc' = "ret"

\* the thread that runs the function is never suspended for ever: a step that
\* can be taken is taken, and a call of the hook returns
SpecDiscovery ==
    Init /\ [][DiscoveryNext]_vars /\ WF_vars(LoopStep) /\ WF_pc(HookReturns)

\* ------------- download_images_from_queue / batch_download_to_temp (run.py)
\* download_images_from_queue up to the call of asyncio.run (lines 258-277);
\* os.makedirs raising is caught by the outer except (lines 291-295)
DownloadImagesFromQueue ==
    /\ pc = "q_download"
    /\ \/ /\ shared_state' = [shared_state EXCEPT !.success = FALSE]
          /\ download_result' = "False"
          /\ pc' = "done"
          /\ UNCHANGED <<url_queue, dl_urls>>
       \/ LET taken == Drain(url_queue, max_images)
          IN  /\ dl_urls' = taken
              /\ url_queue' = SubSeq(url_queue, Len(taken) + 1, Len(url_queue))
              /\ shared_state' = [shared_state EXCEPT !.urls_found = Len(taken)]
              /\ pc' = "q_session"
              /\ UNCHANGED download_result
    /\ UNCHANGED <<cvars, evars, mvars, dvars, batch_num, task, download_counter, failed_downloads,
                   downloaded, workers, filepath, files>>

\* batch_download_to_temp before its loop (lines 312-330); an exception here
\* leaves asyncio.run and is caught at lines 285-289
OpenTempSession ==
    /\ pc = "q_session"
    /\ \/ /\ shared_state' = [shared_state EXCEPT !.success = FALSE]
          /\ download_result' = "False"
          /\ pc' = "done"
          /\ UNCHANGED <<dl_urls, batch_num, task, filepath>>
       \/ /\ dl_urls' = SubSeq(dl_urls, 1, Min(Len(dl_urls), max_images))
          /\ batch_num' = 0
          /\ task' = [k \in 1..Min(Len(dl_urls), max_images) |-> "none"]
          /\ filepath' = [k \in 1..Min(Len(dl_urls), max_images) |-> NoPath]
          /\ pc' = "q_batch"
          /\ UNCHANGED <<shared_state, download_result>>
    /\ UNCHANGED <<cvars, evars, mvars, dvars, url_queue, download_counter, failed_downloads,
                   downloaded, workers, files>>

\* batch_download_to_temp returns True; download_images_from_queue returns
\* "shared_state['downloads_completed'] > 0" (lines 361-367, 279-284)
TempReturn ==
    /\ download_result' = IF shared_state.downloads_completed > 0 THEN "True" ELSE "False"
    /\ pc' = "done"

\* head of the batch loop of batch_download_to_temp: create and gather the
\* tasks of the next batch (lines 332-348), or leave the loop and return
TempBatchStart ==
    /\ pc = "q_batch"
    /\ IF batch_num < TotalBatches(Len(dl_urls))
       THEN /\ CreateTasks(batch_num, "temp_dir")
            /\ pc' = "q_gather"
            /\ UNCHANGED download_result
       ELSE /\ TempReturn
            /\ UNCHANGED <<task, filepath>>
    /\ UNCHANGED <<cvars, evars, mvars, dvars, url_queue, dl_urls, batch_num, download_counter,
                   failed_downloads, downloaded, workers, files, shared_state>>

\* "with lock: shared_state[...] += 1" of download_single_image_async
\* (lines 384-386, 391-393, 398-400)
\* a task that counts itself only when it succeeded
CountedCompleted(state, outcome) ==
    IF outcome = "ok"
    THEN [state EXCEPT !.downloads_completed = state.downloads_completed + 1]
    ELSE state

Counted(state, outcome) ==
    IF outcome = "ok"
    THEN [state EXCEPT !.downloads_completed = state.downloads_completed + 1]
    ELSE [state EXCEPT !.downloads_failed = state.downloads_failed + 1]

\* the outcomes of download_single_image_async as batch_download_to_temp sees
\* them: counted as completed ("ok"), or counted as failed ("fail": a status
\* other than 200, lines 389-395, or an exception, lines 396-404; gather's
\* results are dropped at line 348)
TempOutcomes(n, failed) ==
    {<<"ok", FALSE>>}
      \cup (IF failed < MaxFailures THEN {<<"fail", FALSE>>} ELSE {})
      \cup (IF failed < MaxFailures /\ n <= MaxLateFaultLen
            THEN {<<"fail", TRUE>>} ELSE {})

\* one task of batch_download_to_temp reaches its outcome and counts it
TempTaskFinish(k) ==
    /\ pc = "q_gather"
    /\ task[k] = "inflight"
    /\ \E outcome \in TempOutcomes(Len(dl_urls), Failed(task)) :
         /\ task' = [task EXCEPT ![k] = outcome[1]]
         /\ files' = FilesAfter(outcome, filepath[k])
         /\ shared_state' = Counted(shared_state, outcome[1])
    /\ UNCHANGED <<cvars, evars, mvars, dvars, url_queue, pc, dl_urls, batch_num, download_counter,
                   failed_downloads, downloaded, workers, filepath, download_result>>

\* "if completed >= max_images" (line 357)
ReachedLimit(completed, wanted) == completed >= wanted

\* after gather returned: progress, and the early exit (lines 350-359)
TempBatchEnd ==
    /\ pc = "q_gather"
    /\ GatherReturned(task, BatchRange(batch_num, Len(dl_urls)))
    /\ IF ReachedLimit(shared_state.downloads_completed, max_images)
       THEN /\ TempReturn
            /\ UNCHANGED batch_num
       ELSE /\ batch_num' = batch_num + 1
            /\ pc' = "q_batch"
            /\ UNCHANGED download_result
    /\ UNCHANGED <<cvars, evars, mvars, dvars, url_queue, dl_urls, task, download_counter,
                   failed_downloads, downloaded, workers, filepath, files, shared_state>>

TempNext ==
    \/ DownloadImagesFromQueue
    \/ OpenTempSession
    \/ TempBatchStart
    \/ \E k \in 1..Len(task) : TempTaskFinish(k)
    \/ TempBatchEnd

\* ------------------ download_images (pinterest_browser_scraper, thread pool)
\* "urls_to_download = image_urls[:max_images]" (line 417)
Slice(list, n) == SubSeq(list, 1, Min(Len(list), n))

\* download_images up to the submission of the tasks to the executor
\* (lines 406-427); url_queue holds its argument image_urls
PoolDownloadImages ==
    /\ pc = "pool_download"
    /\ IF url_queue = <<>>
       THEN /\ downloaded' = 0                   \* "No image URLs to download"
            /\ pc' = "done"
            /\ UNCHANGED <<dl_urls, task, download_counter, failed_downloads, filepath>>
       ELSE \/ /\ pc' = "failed"                 \* os.makedirs raised
               /\ UNCHANGED <<dl_urls, task, download_counter, failed_downloads,
                              downloaded, filepath>>
            \/ /\ dl_urls' = Slice(url_queue, max_images)
               /\ task' = [k \in 1..Len(Slice(url_queue, max_images)) |-> "queued"]
               /\ filepath' = [k \in 1..Len(Slice(url_queue, max_images)) |-> NoPath]
               /\ download_counter' = 0
               /\ failed_downloads' = <<>>
               /\ pc' = "pool"
               /\ UNCHANGED downloaded
    /\ UNCHANGED <<cvars, evars, mvars, dvars, url_queue, batch_num, workers, files, shared_state,
                   download_result>>

\* the text after the last "." of a URL, cut at "?": what each URL of the
\* download phase under test ends in
Suffixes == << <<"p", "n", "g">>, <<>>, <<"j", "p", "e", "g", "_", "x">>, Jpg >>

\* the references of the download phase under test end in their number; the
\* ones the page under test shows end in .jpg
Suffix(url) ==
    LET number == {k \in 1..MaxUrls : url[Len(url)] = ToString(k)}
    IN  IF number = {} THEN Jpg
        ELSE Suffixes[((CHOOSE k \in number : TRUE) % Len(Suffixes)) + 1]

\* "if len(file_ext) > 5 or not file_ext: file_ext = 'jpg'" (lines 383-385)
FileExt(suffix) == IF Len(suffix) > 5 \/ suffix = <<>> THEN Jpg ELSE suffix

\* a free worker thread takes the next task (url, folder, index) of the
\* executor's work queue and builds its file name (lines 380-388); index is the
\* position enumerate() gave the URL at line 421
PoolTaskStart(k) ==
    /\ pc = "pool"
    /\ task[k] = "queued"
    /\ \A j \in 1..(k - 1) : task[j] # "queued"
    /\ Cardinality({j \in 1..Len(task) : task[j] = "running"}) < workers
    /\ task' = [task EXCEPT ![k] = "running"]
    /\ filepath' = [filepath EXCEPT
                      ![k] = FilePath("output_folder", Idx(0, k - 1),
                                      FileExt(Suffix(dl_urls[k])))]
    /\ UNCHANGED <<cvars, evars, mvars, dvars, url_queue, pc, dl_urls, batch_num, download_counter,
                   failed_downloads, downloaded, workers, files, shared_state,
                   download_result>>

\* the outcomes of download_image (lines 390-404): (True, url) once the body was
\* streamed to the file, or (False, url) for a status other than 200 and for any
\* exception; an exception while streaming comes after open() created the file
PoolOutcomes(n, failed) ==
    {<<"ok", FALSE>>}
      \cup (IF failed < MaxFailures THEN {<<"fail", FALSE>>} ELSE {})
      \cup (IF failed < MaxFailures /\ n <= MaxLateFaultLen
            THEN {<<"fail", TRUE>>} ELSE {})

PoolTaskFinish(k) ==
    /\ pc = "pool"
    /\ task[k] = "running"
    /\ \E outcome \in PoolOutcomes(Len(dl_urls), Failed(task)) :
         /\ task' = [task EXCEPT ![k] = outcome[1]]
         /\ files' = FilesAfter(outcome, filepath[k])
    /\ UNCHANGED <<cvars, evars, mvars, dvars, url_queue, pc, dl_urls, batch_num, download_counter,
                   failed_downloads, downloaded, workers, filepath, shared_state,
                   download_result>>

\* the URLs whose task returned False, in task order
RECURSIVE FailedUrls(_, _, _)
FailedUrls(list, states, k) ==
    IF k > Len(list) THEN <<>>
    ELSE IF states[k] = "fail" THEN <<list[k]>> \o FailedUrls(list, states, k + 1)
    ELSE FailedUrls(list, states, k + 1)

\* "for success, url in results" once executor.map delivered every result,
\* and return (lines 427-439)
PoolCollect ==
    /\ pc = "pool"
    /\ \A k \in 1..Len(task) : task[k] \in {"ok", "fail"}
    /\ download_counter' = Cardinality({k \in 1..Len(task) : task[k] = "ok"})
    /\ failed_downloads' = FailedUrls(dl_urls, task, 1)
    /\ downloaded' = Cardinality({k \in 1..Len(task) : task[k] = "ok"})
    /\ pc' = "done"
    /\ UNCHANGED <<cvars, evars, mvars, dvars, url_queue, dl_urls, batch_num, task, workers, fvars>>

PoolNext ==
    \/ PoolDownloadImages
    \/ \E k \in 1..Len(task) : PoolTaskStart(k)
    \/ \E k \in 1..Len(task) : PoolTaskFinish(k)
    \/ PoolCollect

\* --------------------------------------------- the download phase on its own
Url(k) == <<Host, Originals, ToString(k)>>

QueueLens == (0..MaxImages) \cup {MaxUrls}

Targets == (1..MaxImages) \cup {MaxUrls}

DownloadInit ==
    /\ CanonOff
    /\ num_scrolls = 1
    /\ max_images \in Targets
    /\ \E q \in QueueLens : url_queue = [k \in 1..q |-> Url(k)]
    /\ DiscoveryIdle
    /\ dl_urls = <<>>
    /\ batch_num = 0
    /\ task = <<>>
    /\ download_counter = 0
    /\ failed_downloads = <<>>
    /\ downloaded = -1
    /\ filepath = <<>>
    /\ files = {}
    /\ download_result = "none"
    /\ report = NoReport
    /\ \/ /\ pc = "download" /\ workers = 0 /\ shared_state = NewSharedState
          /\ entry = "main" /\ browser = "quit"
       \/ /\ pc = "pool_download" /\ workers \in 1..MaxWorkers
          /\ shared_state = NewSharedState
          /\ entry = "scraper" /\ browser = "open"
       \/ /\ pc = "q_download"
          /\ workers = 0
          /\ entry = "parallel" /\ browser = "quit"
          /\ shared_state = [NewSharedState EXCEPT !.scroll_complete = TRUE,
                                                   !.urls_found = Len(url_queue)]
    /\ OneTerm

SchedulerNext == DownloadNext \/ TempNext \/ PoolNext

SpecDownload == DownloadInit /\ [][SchedulerNext]_vars

\* the event loop and the pool run whatever can run, and every fetch reaches an
\* outcome: each request carries a timeout (run.py lines 483 and 319, scraper
\* line 392)
SpecDownloadLive == DownloadInit /\ [][SchedulerNext]_vars /\ WF_vars(SchedulerNext)

\* ------------------------------------------------- the session entry points
\* main's loop body for one term (run.py lines 109-134), process_search_term_parallel
\* (run.py lines 155-206) and pinterest_search_scraper (lines 441-496).
\* pc = "failed": an exception is on its way to the entry point's except clause.

\* what extract_image_urls_method1 may return: nothing, or the src attributes
\* its selectors picked, unfiltered and with repetitions (lines 106-135)
Method1Results ==
    { <<>>,
      << <<Host, Originals, "a">> >>,
      << <<Host, Originals, "a">>, <<Host, Thumb, "c">>, <<Host, Originals, "a">> >> }

\* an entry point without except clause: the exception reaches the caller
ExceptNone(ep) == NoReport

\* the result of the except clause of the entry point: main appends
\* (False, term, 0, count, "") (run.py line 134), process_search_term_parallel
\* returns (False, 0) (line 206), pinterest_search_scraper returns the
\* dictionary with "error" (lines 485-489)
ExceptReport(ep) ==
    [success |-> FALSE, found |-> -1,
     downloaded |-> IF ep = "scraper" THEN -1 ELSE 0, error |-> TRUE]

\* the state in which an entry point begins one session
SessionStart ==
    /\ CanonOff
    /\ entry \in {"main", "parallel", "scraper"}
    /\ browser = "none"
    /\ report = NoReport
    /\ pc = IF entry = "main" THEN "folder" ELSE "setup"
    /\ num_scrolls \in 1..SessionScrolls
    /\ max_images \in 1..MaxImages
    /\ url_queue = <<>>
    /\ DiscoveryIdle
    /\ dl_urls = <<>>
    /\ batch_num = 0
    /\ task = <<>>
    /\ download_counter = 0
    /\ failed_downloads = <<>>
    /\ downloaded = -1
    /\ workers = IF entry = "scraper" THEN 1 ELSE 0
    /\ filepath = <<>>
    /\ files = {}
    /\ shared_state = NewSharedState
    /\ download_result = "none"

SessionInit == SessionStart /\ OneTerm

\* "os.makedirs(folder_path, exist_ok=True)" of main (run.py line 119)
MainFolder ==
    /\ pc = "folder"
    /\ entry = "main"
    /\ pc' \in {"setup", "failed"}
    /\ UNCHANGED <<cvars, dvars, svars, url_queue, evars, mvars>>

\* "browser = setup_browser(...)" (run.py line 219, scraper line 453)
SetupBrowser ==
    /\ pc = "setup"
    /\ \/ /\ browser' = "open"
          /\ pc' = IF entry = "scraper" THEN "method1" ELSE "start"
       \/ /\ pc' = "failed"
          /\ UNCHANGED browser
    /\ UNCHANGED <<cvars, dvars, svars, url_queue, entry, report, mvars>>

\* "image_urls = extract_image_urls_method1(...)" and the test that follows
\* (scraper lines 457-460); the function catches its own exceptions
Method1 ==
    /\ pc = "method1"
    /\ \E found \in Method1Results :
         /\ url_queue' = found
         /\ pc' = IF Len(found) < max_images THEN "refresh" ELSE "pool_download"
    /\ UNCHANGED <<cvars, dvars, svars, evars, mvars>>

\* "browser.refresh(); time.sleep(3)" (scraper lines 462-463)
Refresh ==
    /\ pc = "refresh"
    /\ pc' \in {"start", "failed"}
    /\ UNCHANGED <<cvars, dvars, svars, url_queue, evars, mvars>>

\* "all_urls = list(set(image_urls + additional_urls))" (scraper lines 467-469)
Combine ==
    /\ pc = "ret"
    /\ entry = "scraper"
    /\ \E all_urls \in Perms(Range(url_queue) \cup Range(urls)) : url_queue' = all_urls
    /\ pc' = "pool_download"
    /\ UNCHANGED <<cvars, dvars, svars, evars, mvars>>

\* process_search_term_parallel between discovery and download (run.py lines 185-187)
Handoff ==
    /\ pc = "handoff"
    /\ shared_state' = [shared_state EXCEPT !.scroll_complete = TRUE,
                                            !.urls_found = Len(url_queue)]
    /\ pc' = "q_download"
    /\ UNCHANGED <<cvars, dvars, url_queue, dl_urls, batch_num, task, download_counter,
                   failed_downloads, downloaded, workers, filepath, files,
                   download_result, evars, mvars>>

\* an except clause that is followed by no finally clause
CaughtNoFinally ==
    /\ pc = "failed"
    /\ report' = ExceptReport(entry)
    /\ results' = IF entry = "main"
                  THEN Append(results, Result(FALSE, Len(results) + 1, 0, max_images))
                  ELSE results
    /\ pc' = "reported"
    /\ UNCHANGED <<cvars, dvars, svars, url_queue, entry, browser, search_terms>>

\* the except clause of the entry point, and for pinterest_search_scraper its
\* finally clause, which quits a browser that was set up (lines 490-496)
Caught ==
    /\ pc = "failed"
    /\ report' = ExceptReport(entry)
    /\ browser' = IF entry = "scraper" /\ browser = "open" THEN "quit" ELSE browser
    /\ results' = IF entry = "main"
                  THEN Append(results, Result(FALSE, Len(results) + 1, 0, max_images))
                  ELSE results
    /\ pc' = "reported"
    /\ UNCHANGED <<cvars, dvars, svars, url_queue, entry, search_terms>>

\* main after download_images returned (run.py lines 125-131)
MainReturn ==
    /\ pc = "done"
    /\ entry = "main"
    /\ report' = [success |-> TRUE, found |-> -1, downloaded |-> downloaded,
                  error |-> FALSE]
    /\ results' = Append(results, Result(TRUE, Len(results) + 1, downloaded, max_images))
    /\ pc' = "reported"
    /\ UNCHANGED <<cvars, dvars, svars, url_queue, entry, browser, search_terms>>

\* process_search_term_parallel after download_images_from_queue returned
\* (run.py lines 194-202); move_files_from_temp moves the files, or an
\* exception, which it catches, stops it before the first one
ParallelReturn ==
    /\ pc = "done"
    /\ entry = "parallel"
    /\ report' = [success |-> shared_state.success /\ download_result = "True",
                  found |-> -1, downloaded |-> shared_state.downloads_completed,
                  error |-> FALSE]
    /\ \E moved \in {files, {}} :
         files' = (files \ moved) \cup {[f EXCEPT !.dir = "output_dir"] : f \in moved}
    /\ pc' = "reported"
    /\ UNCHANGED <<cvars, dvars, url_queue, dl_urls, batch_num, task, download_counter,
                   failed_downloads, downloaded, workers, filepath, shared_state,
                   download_result, entry, browser, mvars>>

\* pinterest_search_scraper after download_images returned (lines 472-480) and
\* its finally clause (lines 490-496)
ScraperReturn ==
    /\ pc = "done"
    /\ entry = "scraper"
    /\ report' = [success |-> downloaded > 0, found |-> Len(url_queue),
                  downloaded |-> downloaded, error |-> FALSE]
    /\ browser' = "quit"
    /\ pc' = "reported"
    /\ UNCHANGED <<cvars, dvars, svars, url_queue, entry, mvars>>

SessionNext ==
    \/ MainFolder
    \/ SetupBrowser
    \/ Method1
    \/ Refresh
    \/ Next
    \/ Combine
    \/ Handoff
    \/ TempNext
    \/ PoolNext
    \/ Caught
    \/ MainReturn
    \/ ParallelReturn
    \/ ScraperReturn

SpecSession == SessionInit /\ [][SessionNext]_vars

\* the steps of a session that call no extraction hook
SessionStep ==
    \/ MainFolder
    \/ SetupBrowser
    \/ Method1
    \/ Refresh
    \/ LoopStep
    \/ ReturnQueue
    \/ Combine
    \/ Handoff
    \/ DownloadNext
    \/ TempNext
    \/ PoolNext
    \/ Caught
    \/ MainReturn
    \/ ParallelReturn
    \/ ScraperReturn

\* the session's thread is never suspended for ever, a call of the hook
\* returns, and every fetch reaches an outcome (the requests carry timeouts:
\* run.py line 483, scraper line 392)
SpecSessionLive ==
    SessionInit /\ [][SessionNext]_vars /\ WF_vars(SessionStep) /\ WF_pc(HookReturns)

\* ------------------------------------------------- main over several terms
\* the locals of one iteration of main's loop and of the functions it called
\* are gone when the iteration ends; the next term has its own folder
FreshIteration ==
    /\ DropLocals
    /\ all_image_urls' = {}
    /\ urls' = <<>>
    /\ insert_order' = <<>>
    /\ exit_reason' = "none"
    /\ loop_count' = 0
    /\ overlap' = FALSE
    /\ url_queue' = <<>>
    /\ dl_urls' = <<>>
    /\ batch_num' = 0
    /\ task' = <<>>
    /\ download_counter' = 0
    /\ failed_downloads' = <<>>
    /\ downloaded' = -1
    /\ filepath' = <<>>
    /\ files' = {}
    /\ browser' = "none"
    /\ report' = NoReport

\* a loop head that goes on to the next term only after a successful one
NextTermAfterSuccess ==
    /\ pc = "reported"
    /\ entry = "main"
    /\ Len(results) < Len(search_terms)
    /\ results[Len(results)].success
    /\ max_images' = search_terms[Len(results) + 1]
    /\ pc' = "folder"
    /\ FreshIteration
    /\ UNCHANGED <<cvars, mvars, entry, num_scrolls, workers, shared_state,
                   download_result>>

\* "for term, count in search_terms" (run.py line 109) after the first term:
\* the next pair is taken
NextTerm ==
    /\ pc = "reported"
    /\ entry = "main"
    /\ Len(results) < Len(search_terms)
    /\ max_images' = search_terms[Len(results) + 1]
    /\ pc' = "folder"
    /\ FreshIteration
    /\ UNCHANGED <<cvars, mvars, entry, num_scrolls, workers, shared_state,
                   download_result>>

\* the loop is exhausted: summary and end of main (run.py lines 136-153)
Summary ==
    /\ pc = "reported"
    /\ entry = "main"
    /\ Len(results) >= Len(search_terms)
    /\ pc' = "exit"
    /\ UNCHANGED <<cvars, dvars, svars, url_queue, evars, mvars>>

\* main at the head of its loop with the first term (run.py lines 105-109)
MainInit ==
    /\ SessionStart
    /\ entry = "main"
    /\ \E n \in 1..MaxTerms : search_terms \in [1..n -> 1..MaxCount]
    /\ max_images = search_terms[1]
    /\ results = <<>>

MainNext ==
    \/ MainFolder
    \/ SetupBrowser
    \/ Next
    \/ Caught
    \/ MainReturn
    \/ NextTerm
    \/ Summary

\* the steps of main that call no extraction hook
MainStep ==
    \/ MainFolder
    \/ SetupBrowser
    \/ LoopStep
    \/ ReturnQueue
    \/ DownloadNext
    \/ Caught
    \/ MainReturn
    \/ NextTerm
    \/ Summary

\* main's thread is never suspended for ever, a call of the hook returns and
\* every fetch reaches an outcome
SpecMain == MainInit /\ [][MainNext]_vars /\ WF_vars(MainStep) /\ WF_pc(HookReturns)

\* ------------------------------------------- one term of main on a short page
\* a page that shows the same four images whenever it is read: two of them are
\* size variants of one image and one is a thumbnail, so two references are
\* discovered; its scrollHeight never changes
UndershootPage ==
    { <<Host, "236x", "a">>, <<Host, "474x", "a">>, <<Host, Originals, "b">>,
      <<Host, Thumb, "c">> }

StableHeight == 1

\* the browser and the file system on that page: every scrollHeight read
\* gives StableHeight, every extraction in the loop reads the whole page, no
\* call of the driver and no os.makedirs raises
UndershootSource ==
    /\ pc' # "failed"
    /\ exit_reason' # "error"
    /\ (pc = "start") => last_height' = StableHeight
    /\ (pc = "height") => new_height' = StableHeight
    /\ (pc = "probe") => probe_heights'[Len(probe_heights')] = StableHeight
    /\ (pc = "extract") => (last_extract' = "ok" /\ all_image_urls' = ExtractAll(UndershootPage))
    /\ (pc = "final") => all_image_urls' = ExtractAll(UndershootPage)

\* main asks for more images than the page has (run.py lines 109-125)
UndershootInit ==
    /\ SessionInit
    /\ entry = "main"
    /\ max_images = MaxImages

UndershootNext ==
    \/ MainFolder /\ UndershootSource
    \/ SetupBrowser /\ UndershootSource
    \/ Next /\ UndershootSource
    \/ MainReturn /\ UndershootSource

SpecUndershoot ==
    UndershootInit /\ [][UndershootNext]_vars /\ WF_vars(UndershootNext)

\* ------------------------------------------------------------------ claims
K == max_bottom_detection_attempts

InLoop == pc \in {"scroll", "extract", "target", "height", "probe", "probe_end"}

Selected == pc \in {"session", "batch", "gather", "pool", "done"}

\* C1: neither the list of discovered references a discovery run returns nor
\* the URL queue handed to the downloader ever holds the same canonical URL
\* twice, whatever (overlapping, repeated) raw references the hook returns.
C1_Dedup == NoDup(urls) /\ NoDup(url_queue)

C1_Witness == pc = "download" /\ overlap /\ Len(url_queue) >= 2 /\ exit_reason = "budget"

\* C2: canonicalize(canonicalize(r)) = canonicalize(r) for every raw reference
\* r, also for one that holds more than one size marker.
C2_Idempotent == (c_pc = "twice") => (c_twice = c_once)

C4_Convergence ==
    /\ (pc = "final" /\ exit_reason = "converged")
          => /\ Len(probe_heights) = K
             /\ \A k \in 1..Len(probe_heights) : probe_heights[k] = last_height
    /\ (pc = "probe_end" /\ Len(probe_heights) = K
          /\ \A k \in 1..K : probe_heights[k] = last_height)
          => BottomConfirmed(bottom_detection_count)

\* C5: a re-probe that reads an extent different from the stalled one ends the
\* confirmation without convergence and makes the new extent the baseline; a
\* confirmation starts counting from zero.
C5_ResetOnGrowth ==
    /\ (pc = "probe")
          => /\ bottom_detection_count = Len(probe_heights)
             /\ \A k \in 1..Len(probe_heights) : probe_heights[k] = last_height
    /\ (pc = "probe_end"
          /\ \E k \in 1..Len(probe_heights) : probe_heights[k] # last_height)
          => /\ ~BottomConfirmed(bottom_detection_count)
             /\ new_height = probe_heights[Len(probe_heights)]

\* C6: the loop ends as target-reached the instant max_images references are
\* available, also when they become available during the confirmation
\* re-probes. The step's own extraction succeeded and the only advances after
\* it are the re-probes, so what the final extraction adds became available
\* during the confirmation: a loop that ends as converged must not be left
\* holding max_images references.
C6_MidConfirmation ==
    [][ (pc = "final" /\ exit_reason = "converged" /\ last_extract = "ok")
            => Cardinality(all_image_urls') < max_images ]_vars

\* C7: when the scroll or the extent reading raises after references were
\* collected, the run returns every reference collected in the earlier steps.
C7_AdvanceFailure ==
    (pc = "ret" /\ exit_reason = "error") => Range(urls) = all_image_urls

\* C8: a failing extraction hook adds nothing to the discovered set in that
\* step, and the loop goes on to its target check and then to its extent check
\* instead of ending.
C8_ExtractionAbsorbed ==
    [][ /\ (pc = "extract" /\ last_extract' = "fail")
             => /\ all_image_urls' = all_image_urls
                /\ insert_order' = insert_order
                /\ pc' = "target"
                /\ exit_reason' = "none"
        /\ (pc = "target" /\ last_extract = "fail")
             => (pc' = "height" /\ exit_reason' = "none") ]_vars

C8_Witness ==
    pc = "height" /\ last_extract = "fail" /\ all_image_urls # {} /\ i = 1

\* C9: the references selected for download are the first
\* min(max_images, |discovered|) references in order of first insertion.
C9_InsertionOrder ==
    (Selected /\ exit_reason \notin {"error", "none"})
        => Range(dl_urls) =
             Range(SubSeq(insert_order, 1, Min(max_images, Len(insert_order))))

\* C10: at most max_images references are selected, at most max_images download
\* tasks are created over all batches, and the success count never exceeds
\* max_images.
C10_SelectionCap ==
    /\ Len(dl_urls) <= max_images
    /\ Cardinality({k \in 1..Len(task) : task[k] # "none"}) <= max_images
    /\ download_counter <= max_images
    /\ downloaded <= max_images

C10_Witness ==
    /\ pc = "done"
    /\ workers = 0
    /\ url_queue # <<>>
    /\ \E k \in 1..Len(task) : task[k] \in {"http", "exc"}
    /\ downloaded = max_images - 1
    /\ downloaded >= 1

C10_WitnessPool ==
    /\ pc = "done"
    /\ workers > 0
    /\ Len(url_queue) > max_images
    /\ \E k \in 1..Len(task) : task[k] = "fail"
    /\ downloaded >= 1

\* ------------------------------------------------------- scheduler claims
AsyncPath == pc \in {"batch", "gather", "q_batch", "q_gather"}

TempPath == pc \in {"q_session", "q_batch", "q_gather"} \/ download_result # "none"

\* the running success count and the failure count the scheduler keeps
SuccessCount == IF TempPath THEN shared_state.downloads_completed ELSE download_counter

FailureCount == IF TempPath THEN shared_state.downloads_failed ELSE Len(failed_downloads)

Outcomes == {"ok", "http", "exc", "fail"}

Count(range, states) == Cardinality({k \in range : task[k] \in states})

BatchOf(k) == (k - 1) \div batch_size

\* C11: after a first batch of 10 fetches of which 7 returned HTTP 200 and 3
\* returned another status (404), the scheduler has recorded exactly 7 successes
\* and a failure count of exactly 3, and a following batch is still to be
\* dispatched; for batch_download_images and for batch_download_to_temp.
C11_FailureAccounting ==
    (/\ pc \in {"batch", "q_batch"}
     /\ batch_num = 1
     /\ Len(dl_urls) > batch_size
     /\ Count(1..batch_size, {"ok"}) = 7
     /\ Count(1..batch_size, {"http", "fail"}) = 3)
        => /\ SuccessCount = 7
           /\ FailureCount = 3
           /\ batch_num < TotalBatches(Len(dl_urls))

\* C12: whatever the per-task failures, a task that has reached its outcome is
\* never run again and keeps its outcome, a task is started only once, and a run
\* that opened its session ends with every selected reference at an outcome.
C12_FailureIsolation ==
    [][ /\ (dl_urls' = dl_urls /\ Len(task) = Len(task'))
             => \A k \in 1..Len(task) :
                  /\ (task[k] \in Outcomes) => (task'[k] = task[k])
                  /\ (task'[k] \in {"inflight", "running"} /\ task'[k] # task[k])
                        => task[k] \in {"none", "queued"}
        /\ (pc' = "done" /\ Len(task') > 0)
             => \A k \in 1..Len(dl_urls') : task'[k] \in Outcomes ]_vars

C12_Witness ==
    /\ pc = "done"
    /\ workers = 0
    /\ Len(task) > batch_size
    /\ task[1] = "exc"
    /\ task[2] = "http"
    /\ task[3] = "ok"
    /\ task[Len(task)] = "ok"

\* C13: at most batch_size (10) fetches of the asyncio schedulers are in flight
\* at the same time, and at most "workers" fetches of the thread pool are running
\* at the same time, whatever the number of selected references.
C13_ConcurrencyBound ==
    /\ Count(1..Len(task), {"inflight"}) <= batch_size
    /\ (workers > 0) => Count(1..Len(task), {"running"}) <= workers

C13_Witness ==
    /\ pc = "gather"
    /\ Len(dl_urls) > batch_size
    /\ Count(1..Len(task), {"inflight"}) = batch_size

C13_WitnessPool ==
    /\ pc = "pool"
    /\ Count(1..Len(task), {"running"}) = workers
    /\ Count(1..Len(task), {"queued"}) > 0
    /\ workers = MaxWorkers

\* C14: no task of a later batch is created before every task of every earlier
\* batch has reached its outcome, in every order of task completions.
C14_BatchBarrier ==
    \A j, k \in 1..Len(task) :
        (AsyncPath /\ BatchOf(j) > BatchOf(k) /\ task[j] # "none")
            => task[k] \in Outcomes

C14_Witness ==
    /\ pc = "q_gather"
    /\ batch_num = 1
    /\ task[Len(task)] = "inflight"
    /\ task[1] = "fail"
    /\ task[2] = "ok"

\* C15: once the success count read after a batch has reached max_images, the
\* scheduler dispatches no further batch: it leaves the loop and returns.
C15_EarlyExit ==
    [][ /\ (pc \in {"batch", "q_batch"} /\ SuccessCount >= max_images) => pc' = "done"
        /\ (pc = "q_gather" /\ pc' # pc /\ SuccessCount >= max_images) => pc' = "done"
      ]_vars

C15_Witness ==
    /\ pc = "done"
    /\ download_result = "True"
    /\ shared_state.downloads_completed = max_images
    /\ batch_num = 1
    /\ Len(dl_urls) > batch_size

\* C16: a scheduler that opened its session stops only when the success count
\* has reached max_images or every selected reference has been dispatched.
C16_NoEarlyStop ==
    (pc = "done" /\ Len(task) > 0)
        => (SuccessCount >= max_images \/ \A k \in 1..Len(task) : task[k] # "none")

C16_Witness ==
    /\ pc = "done"
    /\ workers = 0
    /\ Len(task) > batch_size
    /\ SuccessCount < max_images
    /\ SuccessCount >= 1
    /\ \A k \in 1..Len(task) : task[k] # "none"

\* C17: the file name given to a download task is image_NNNN with NNNN the
\* position of its reference in the selected list, it is set when the task is
\* created (asyncio) or started (thread pool) whatever tasks completed before,
\* and no two tasks of a run have the same destination path.
C17_SequenceIndex ==
    /\ \A k \in 1..Len(filepath) :
          /\ (filepath[k] # NoPath) => filepath[k].name = Format04(k - 1)
          /\ (task[k] \notin {"none", "queued"}) => filepath[k] # NoPath
    /\ \A j, k \in 1..Len(filepath) :
          (j # k /\ filepath[j] # NoPath) => filepath[j] # filepath[k]

C17_Witness ==
    /\ pc = "gather"
    /\ batch_num = 1
    /\ Len(task) > batch_size
    /\ filepath[batch_size + 1].name = <<0, 0, 1, 0>>
    /\ task[1] = "exc"
    /\ task[2] = "ok"
    /\ task[batch_size + 1] = "inflight"

\* C18: a file exists at the destination path of a task only if the task's
\* outcome is success; a task that fails, also after its file was opened,
\* leaves no file.
C18_AtomicPersistence ==
    \A k \in 1..Len(filepath) : (filepath[k] \in files) => task[k] = "ok"

\* ------------------------------------------------------- discovery claims
\* C19: the discovery loop starts at most num_scrolls steps and the run
\* terminates, whatever extents and extraction results it meets; a run that
\* used up its budget without reaching the target returns every reference
\* discovered, as a list and not as an error.
C19_BudgetTermination ==
    /\ [](InLoop => i < num_scrolls)
    /\ []((pc = "ret" /\ exit_reason = "budget")
            => (Range(urls) = all_image_urls /\ Range(insert_order) \subseteq Range(urls)))
    /\ <>(pc = "ret")

C19_Witness ==
    /\ pc = "ret"
    /\ exit_reason = "budget"
    /\ num_scrolls = MaxScrolls
    /\ Len(urls) >= 1
    /\ Len(urls) < max_images

\* C20: no step of a discovery run (the final extraction included) removes an
\* element from the discovered set, and a run that ends as target-reached,
\* converged or budget-exhausted returns every reference that was inserted.
C20_MonotonicGrowth ==
    [][ /\ all_image_urls \subseteq all_image_urls'
        /\ Cardinality(all_image_urls) <= Cardinality(all_image_urls')
        /\ (pc' = "ret" /\ exit_reason' \in {"target", "converged", "budget"})
             => Range(insert_order') \subseteq Range(urls') ]_vars

C20_Witness ==
    /\ pc = "ret"
    /\ exit_reason = "converged"
    /\ Len(insert_order) >= 2
    /\ loop_count < Len(urls)

\* ---------------------------------------------------- canonicalizer claims
\* the reference is inline data / carries the thumbnail marker, written out
\* on the segments themselves
IsData(u) == Len(u) >= 1 /\ u[1] = "data:"

IsThumb(u) == \E p \in 2..(Len(u) - 1) : u[p] = "60x60"

MarkerAt(u) == {p \in 2..(Len(u) - 1) : u[p] \in Markers}

\* C21: two raw references that are equal except for which one of the size
\* markers /236x/ /474x/ /736x/ /1200x/ /550x/ /170x/ they carry have the same
\* canonical form, the reference with the marker exchanged for /originals/,
\* and so take one entry of the discovered set and of the download queue.
C21_SizeVariants ==
    (c_pc = "alt" /\ Cardinality(MarkerAt(c_raw)) = 1)
        => /\ c_alt_once = c_once
           /\ Cardinality(ExtractAll({c_raw, c_alt})) <= 1
           /\ (c_once # Rejected) =>
                 /\ \A p \in MarkerAt(c_raw) : c_once = [c_raw EXCEPT ![p] = Originals]
                 /\ BuildQueue(<<c_once, c_alt_once>>, 1, <<>>) = <<c_once>>

C21_Witness ==
    /\ c_pc = "alt"
    /\ c_raw = <<Host, "550x", "a">>
    /\ c_alt = <<Host, "170x", "a">>
    /\ c_once = <<Host, Originals, "a">>
    /\ c_alt_once = c_once

\* C22: a raw reference that starts with data: or contains /60x60/ is
\* rejected, and no reference that the canonicalizer accepts or that
\* scroll_and_extract_urls puts into the download queue starts with data: or
\* contains /60x60/.
C22_Rejection ==
    (c_pc # "in")
        => /\ (IsData(c_raw) \/ IsThumb(c_raw))
                => (c_once = Rejected /\ ExtractAll({c_raw}) = {} /\ c_queue = <<>>)
           /\ \A u \in ExtractAll({c_raw}) \cup Range(c_queue) \cup {c_once} :
                ~IsData(u) /\ ~IsThumb(u)

C22_Witness ==
    /\ c_pc = "once"
    /\ c_raw = <<DataScheme, Host, "236x", "a">>
    /\ c_once = Rejected
    /\ c_queue = <<>>

\* C23: a raw reference that is neither inline data nor a thumbnail and that
\* contains none of the size markers is accepted and returned unchanged.
C23_PassThrough ==
    (c_pc # "in" /\ ~IsData(c_raw) /\ ~IsThumb(c_raw) /\ MarkerAt(c_raw) = {})
        => c_once = c_raw

\* ------------------------------------------------------- file-name claims
\* C24: on every download path the file of a successful task is named
\* image_NNNN.ext with NNNN the task's index; ext is the extension the
\* reference carries (png for a reference ending in .png) and jpg when it
\* carries none or jpg.
C24_FileName ==
    \A k \in 1..Len(filepath) :
        (task[k] = "ok") =>
            /\ filepath[k].name = Format04(k - 1)
            /\ (Suffix(dl_urls[k]) = <<"p", "n", "g">>) => filepath[k].ext = <<"p", "n", "g">>
            /\ (Suffix(dl_urls[k]) \in {<<>>, Jpg}) => filepath[k].ext = Jpg

\* --------------------------------------------------------- session claims
\* the first creation of the destination directory by the entry point fails:
\* main at run.py line 119, pinterest_search_scraper in download_images (line 413)
DirectoryFails ==
    \/ entry = "main" /\ pc = "folder" /\ pc' = "failed"
    \/ entry = "scraper" /\ pc = "pool_download" /\ pc' = "failed"

\* C25: when the destination directory cannot be created the session fails
\* before any work began: no browser was set up, no discovery step ran, no
\* reference was found and no fetch was prepared; for main and for
\* pinterest_search_scraper.
C25_DirectoryFirst ==
    [][ DirectoryFails
          => /\ browser = "none"
             /\ exit_reason = "none"
             /\ url_queue = <<>>
             /\ task = <<>> ]_vars

\* the session began running: the browser was set up and discovery is entered
BeganRunning == browser = "open" /\ pc \in {"start", "method1"}

\* C26: a session that began running ends by giving its caller a report,
\* whatever fails in a discovery step, in a task or on the way between them:
\* no exception leaves the entry point, and the session does not stop short of
\* its report.
C26_ReportAlways ==
    /\ [](BeganRunning => <>(pc = "reported"))
    /\ []((pc = "reported" /\ browser # "none") => report # NoReport)
    /\ []((pc = "reported" /\ ~report.error /\ entry # "parallel")
            => report.downloaded = downloaded)

C26_Witness ==
    /\ pc = "reported"
    /\ entry = "scraper"
    /\ browser = "quit"
    /\ exit_reason = "error"
    /\ Len(task) = 1
    /\ task[1] = "fail"
    /\ report = [success |-> FALSE, found |-> 1, downloaded |-> 0, error |-> FALSE]

\* ------------------------------------------------ scheduler claims, part 2
\* C27: the download scheduler returns in every run in which each dispatched
\* fetch reaches an outcome, on each of the three download paths, and when it
\* has returned no dispatched task is still running; this holds also when
\* fewer images than requested were downloaded.
C27_SchedulerTermination ==
    /\ <>(pc \in {"done", "failed"})
    /\ [](pc = "done" => \A k \in 1..Len(task) : task[k] \notin {"queued", "inflight", "running"})

C27_Witness ==
    /\ pc = "done"
    /\ workers = 0
    /\ max_images = 3
    /\ task = <<"ok", "http", "exc">>
    /\ downloaded = 1

\* a fetch was dispatched
Dispatched == \E k \in 1..Len(task) : task[k] \notin {"none", "queued"}

C29_TallyOnce ==
    TempPath =>
        /\ shared_state.downloads_completed = Count(1..Len(task), {"ok"})
        /\ shared_state.downloads_failed = Count(1..Len(task), {"fail"})
        /\ (pc = "q_batch" \/ download_result # "none")
              => shared_state.downloads_completed + shared_state.downloads_failed
                   = Cardinality({k \in 1..Len(task) : task[k] # "none"})
        /\ (pc = "q_batch")
              => shared_state.downloads_completed + shared_state.downloads_failed
                   = Min(batch_num * batch_size, Len(task))

C29_Witness ==
    /\ pc = "q_batch"
    /\ batch_num = 1
    /\ Len(task) = batch_size + 1
    /\ task[1] = "fail"
    /\ task[batch_size] = "fail"
    /\ task[batch_size + 1] = "none"
    /\ shared_state.downloads_completed = batch_size - 2
    /\ shared_state.downloads_failed = 2

\* the references whose task ended otherwise than in success, in task order
RECURSIVE Unsuccessful(_, _, _)
Unsuccessful(list, states, k) ==
    IF k > Len(list) THEN <<>>
    ELSE IF states[k] \in {"http", "exc", "fail"}
         THEN <<list[k]>> \o Unsuccessful(list, states, k + 1)
         ELSE Unsuccessful(list, states, k + 1)

FirstFive(list) == SubSeq(list, 1, Min(5, Len(list)))

\* C30: when download_images has returned, the number of failures it reports
\* is the number of dispatched tasks that did not succeed, the success count is
\* the number of tasks that succeeded, and the failed references it shows are
\* the first (at most five) failed references in task order.
C30_ReportCounts ==
    (pc = "done" /\ download_result = "none" /\ Dispatched)
        => /\ Len(failed_downloads) = Count(1..Len(task), {"http", "exc", "fail"})
           /\ downloaded = Count(1..Len(task), {"ok"})
           /\ FirstFive(failed_downloads) = FirstFive(Unsuccessful(dl_urls, task, 1))

\* ------------------------------------------------------ undershoot scenario
\* C31: when more images are requested than the page exposes (requested
\* MaxImages, two distinct canonical references exposed) and the page's extent
\* is stable, the discovery loop ends as converged with exactly the exposed
\* references, at most that many fetches are dispatched, and main records a
\* successful result with the smaller count, not an error.
C31_Undershoot ==
    /\ [](exit_reason \in {"none", "converged"})
    /\ []((pc = "ret") => (Len(urls) = 2 /\ Range(urls) = ExtractAll(UndershootPage)))
    /\ [](Len(task) <= 2 /\ Len(dl_urls) <= 2)
    /\ []((pc = "reported")
            => /\ report.success /\ ~report.error
               /\ report.downloaded = Count(1..Len(task), {"ok"})
               /\ report.downloaded <= 2
               /\ report.downloaded < max_images)
    /\ <>(pc = "reported")

C31_Witness ==
    /\ pc = "reported"
    /\ exit_reason = "converged"
    /\ max_images = MaxImages
    /\ Len(task) = 2
    /\ task = <<"ok", "ok">>
    /\ report = [success |-> TRUE, found |-> -1, downloaded |-> 2, error |-> FALSE]

\* --------------------------------------------------------- batching claims
\* C32: the n selected references are split into ceil(n / batch_size) batches;
\* every reference is in exactly one batch, the batches are consecutive slices
\* in selection order, every batch but the last has batch_size references and
\* the last has between 1 and batch_size; the tasks created so far are those
\* of the batches started, and for n = 0 no task is created.
C32_BatchPartition ==
    LET n == Len(dl_urls)
        total == TotalBatches(n)
    IN  (pc \in {"batch", "gather", "q_batch", "q_gather"}) =>
          /\ total * batch_size >= n
          /\ (total - 1) * batch_size < n \/ (n = 0 /\ total = 0)
          /\ \A k \in 1..n :
                Cardinality({b \in 0..(total - 1) : k \in BatchRange(b, n)}) = 1
          /\ \A b \in 0..(total - 1) :
                /\ BatchRange(b, n) \subseteq 1..n
                /\ \A k \in BatchRange(b, n) : BatchOf(k) = b
                /\ (b < total - 1) => Cardinality(BatchRange(b, n)) = batch_size
                /\ Cardinality(BatchRange(b, n)) \in 1..batch_size
          /\ \A k \in 1..Len(task) :
                (task[k] # "none") =>
                   BatchOf(k) <= (IF pc \in {"gather", "q_gather"} THEN batch_num
                                  ELSE batch_num - 1)
          /\ (pc \in {"gather", "q_gather"}) =>
                \A k \in BatchRange(batch_num, n) : task[k] # "none"
          /\ (n = 0) => (task = <<>> /\ pc \in {"batch", "q_batch"})

C32_Witness ==
    /\ pc = "q_gather"
    /\ Len(dl_urls) = batch_size + 1
    /\ batch_num = 1
    /\ BatchRange(1, Len(dl_urls)) = {batch_size + 1}
    /\ task[batch_size + 1] = "inflight"
    /\ task[batch_size] = "ok"

\* --------------------------------------------------- second canonicalization
\* C35: the filter and re-normalisation of scroll_and_extract_urls change no
\* output of the canonicalizer: an accepted reference passes the thumbnail and
\* host tests, is left as it is by the marker rewrite, and is queued; two
\* distinct accepted references stay distinct, so the queue built from a
\* discovered set, in whatever order it is listed, is that list itself and has
\* as many entries as the set.
C35_SecondPassIdentity ==
    /\ (c_pc # "in" /\ c_once # Rejected) =>
          /\ ~Contains(c_once, Thumb)
          /\ HasHost(c_once)
          /\ ToOriginals(c_once) = c_once
          /\ c_queue = <<c_once>>
    /\ (c_pc # "in" /\ c_once = Rejected) => c_queue = <<>>
    /\ (c_pc = "alt") =>
          LET found == {c_once, c_alt_once} \ {Rejected}
          IN  \A list \in Perms(found) :
                /\ BuildQueue(list, 1, <<>>) = list
                /\ Len(BuildQueue(list, 1, <<>>)) = Cardinality(found)

C35_Witness ==
    /\ c_pc = "alt"
    /\ c_once # Rejected
    /\ c_alt_once # Rejected
    /\ c_once # c_alt_once
    /\ Contains(c_once, "736x")
    /\ Contains(c_once, Originals)
    /\ Len(c_queue) = 1

\* ------------------------------------------------- step order, scroll requests
\* C33: a step extracts and inserts before it advances the source, so whenever
\* a scroll request has been issued in the current call an extraction has
\* already been made (the references visible before the first advance are
\* extracted before the first advance).
C33_ExtractBeforeAdvance == (advances > 0) => (last_extract # "none")

C34_BrowserReleased ==
    /\ [](browser = "open" => <>(browser = "quit"))
    /\ []((pc = "reported" /\ browser # "none") => browser = "quit")
    /\ []((entry # "scraper" /\ browser = "open") =>
             (InLoop \/ pc \in {"start", "final", "ret"}))
    /\ []((InLoop \/ pc \in {"method1", "refresh", "start", "final"}) =>
             browser = "open")
    /\ [][browser = "quit" => browser' = "quit"]_vars

\* pinterest_search_scraper reported an exception raised after the set-up
C34_Witness ==
    /\ pc = "reported"
    /\ entry = "scraper"
    /\ browser = "quit"
    /\ report = ExceptReport("scraper")

\* -------------------------------------------------------- per-term isolation
\* C37 as stated: the terms are processed in file order, every exception raised
\* while a term is processed, also one raised during its discovery, leaves a
\* failed result for that term, and the list ends with one entry per term.
C37_EveryExceptionFails ==
    /\ Len(results) <= Len(search_terms)
    /\ (pc = "exit") => Len(results) = Len(search_terms)
    /\ (pc = "reported" /\ (report.error \/ exit_reason = "error")) =>
          ~results[Len(results)].success

\* C37, amended: main processes the terms one after another in file order;
\* an exception that reaches main's try block (folder creation, browser set-up,
\* browser.quit, the folder creation of download_images) appends a failed result
\* for the term being processed and changes no earlier entry, a term whose
\* calls returned appends a successful result (exceptions absorbed inside
\* discovery or download only lower its count), every later term is still
\* processed, and at the end the list holds exactly one entry per term.
C37_TermIsolation ==
    /\ [](Len(results) <= Len(search_terms))
    /\ [](\A k \in 1..Len(results) :
            results[k].term = k /\ results[k].requested = search_terms[k])
    /\ [](IF pc \in {"reported", "exit"}
          THEN Len(results) >= 1
          ELSE /\ Len(results) < Len(search_terms)
               /\ max_images = search_terms[Len(results) + 1])
    /\ [][(pc = "failed") =>
             results' = Append(results, Result(FALSE, Len(results) + 1, 0, max_images))]_vars
    /\ [][(pc = "done") =>
             results' = Append(results,
                               Result(TRUE, Len(results) + 1, downloaded, max_images))]_vars
    /\ [][(pc \notin {"failed", "done"}) => results' = results]_vars
    /\ []((pc = "exit") => Len(results) = Len(search_terms))
    /\ <>(pc = "exit")

\* the first of two terms failed and the second was downloaded
C37_Witness ==
    /\ pc = "exit"
    /\ Len(search_terms) = 2
    /\ Len(results) = 2
    /\ ~results[1].success
    /\ results[2].success
    /\ results[2].downloaded >= 1

====
